---- MODULE Spec2Model ----
(***************************************************************************)
(* A model of code-reviewer (src/main.go): the remote-URL classifier, the  *)
(* parser of `glab mr list` text output, and the sequential pipeline of    *)
(* main.  Go strings are sequences of one-character strings, so that the   *)
(* prefix, substring, split and slice operations of the code are computed  *)
(* character by character, as package strings computes them.               *)
(***************************************************************************)
EXTENDS Integers, Sequences, FiniteSets, TLC

\* ------------------------------------------------------------------------
\* Package strings and strconv, as used by src/main.go
\* ------------------------------------------------------------------------

\* unicode.IsSpace on the characters that occur in the inputs.
IsSpace(c) == c \in {" ", "\t", "\n", "\r", "\f"}

HasPrefix(s, p) == Len(s) >= Len(p) /\ SubSeq(s, 1, Len(p)) = p

HasSuffix(s, p) == Len(s) >= Len(p) /\ SubSeq(s, Len(s) - Len(p) + 1, Len(s)) = p

TrimPrefix(s, p) == IF HasPrefix(s, p) THEN SubSeq(s, Len(p) + 1, Len(s)) ELSE s

TrimSuffix(s, p) == IF HasSuffix(s, p) THEN SubSeq(s, 1, Len(s) - Len(p)) ELSE s

\* sub occurs in s at the 0-based offset i.
MatchAt(s, sub, i) == i + Len(sub) <= Len(s) /\ SubSeq(s, i + 1, i + Len(sub)) = sub

\* strings.Index: the 0-based offset of the first occurrence, -1 if none.
Index(s, sub) ==
    IF \E i \in 0..Len(s) : MatchAt(s, sub, i)
    THEN CHOOSE i \in 0..Len(s) :
            MatchAt(s, sub, i) /\ \A j \in 0..(i - 1) : ~MatchAt(s, sub, j)
    ELSE -1

\* strings.LastIndex: the 0-based offset of the last occurrence, -1 if none.
LastIndex(s, sub) ==
    IF \E i \in 0..Len(s) : MatchAt(s, sub, i)
    THEN CHOOSE i \in 0..Len(s) :
            MatchAt(s, sub, i) /\ \A j \in (i + 1)..Len(s) : ~MatchAt(s, sub, j)
    ELSE -1

Contains(s, sub) == Index(s, sub) >= 0

\* s[:i] and s[i:] with Go's 0-based offsets.
SliceTo(s, i) == SubSeq(s, 1, i)

SliceFrom(s, i) == SubSeq(s, i + 1, Len(s))

\* strings.Replace(s, old, new, 1): the first occurrence only.
ReplaceFirst(s, old, new) ==
    LET i == Index(s, old)
    IN  IF i = -1 THEN s
        ELSE SliceTo(s, i) \o new \o SliceFrom(s, i + Len(old))

\* strings.Split with a non-empty separator.
RECURSIVE Split(_, _)
Split(s, sep) ==
    LET i == Index(s, sep)
    IN  IF i = -1 THEN <<s>>
        ELSE <<SliceTo(s, i)>> \o Split(SliceFrom(s, i + Len(sep)), sep)

RECURSIVE Join(_, _)
Join(parts, sep) ==
    IF Len(parts) = 0 THEN <<>>
    ELSE IF Len(parts) = 1 THEN parts[1]
    ELSE parts[1] \o sep \o Join(Tail(parts), sep)

RECURSIVE TrimLeftSpace(_)
TrimLeftSpace(s) ==
    IF Len(s) > 0 /\ IsSpace(s[1]) THEN TrimLeftSpace(Tail(s)) ELSE s

RECURSIVE TrimRightSpace(_)
TrimRightSpace(s) ==
    IF Len(s) > 0 /\ IsSpace(s[Len(s)])
    THEN TrimRightSpace(SubSeq(s, 1, Len(s) - 1)) ELSE s

TrimSpace(s) == TrimRightSpace(TrimLeftSpace(s))

\* The length of the longest prefix of s without a space character.
RECURSIVE TokenLen(_)
TokenLen(s) ==
    IF Len(s) = 0 \/ IsSpace(s[1]) THEN 0 ELSE 1 + TokenLen(Tail(s))

\* strings.Fields: the maximal runs of non-space characters, in order.
RECURSIVE Fields(_)
Fields(s) ==
    LET t == TrimLeftSpace(s)
        n == TokenLen(t)
    IN  IF Len(t) = 0 THEN <<>>
        ELSE <<SliceTo(t, n)>> \o Fields(SliceFrom(t, n))

UpperLetters ==
    <<"A", "B", "C", "D", "E", "F", "G", "H", "I", "J", "K", "L", "M",
      "N", "O", "P", "Q", "R", "S", "T", "U", "V", "W", "X", "Y", "Z">>

LowerLetters ==
    <<"a", "b", "c", "d", "e", "f", "g", "h", "i", "j", "k", "l", "m",
      "n", "o", "p", "q", "r", "s", "t", "u", "v", "w", "x", "y", "z">>

LowerChar(c) ==
    IF \E k \in 1..Len(UpperLetters) : UpperLetters[k] = c
    THEN LowerLetters[CHOOSE k \in 1..Len(UpperLetters) : UpperLetters[k] = c]
    ELSE c

ToLower(s) == [i \in 1..Len(s) |-> LowerChar(s[i])]

Digits == <<"0", "1", "2", "3", "4", "5", "6", "7", "8", "9">>

IsDigit(c) == \E k \in 1..Len(Digits) : Digits[k] = c

DigitVal(c) == (CHOOSE k \in 1..Len(Digits) : Digits[k] = c) - 1

RECURSIVE DecimalValue(_)
DecimalValue(ds) ==
    IF Len(ds) = 0 THEN 0
    ELSE 10 * DecimalValue(SubSeq(ds, 1, Len(ds) - 1)) + DigitVal(ds[Len(ds)])

RECURSIVE StripZeros(_)
StripZeros(ds) == IF Len(ds) > 0 /\ ds[1] = "0" THEN StripZeros(Tail(ds)) ELSE ds

\* The most decimal digits a 64-bit int can have (9223372036854775807).
MaxInt64Digits == 19

\* strconv.Atoi: an optional sign, then one or more decimal digits; a value
\* outside the 64-bit int range is an error.  [ok, val].
Atoi(s) ==
    LET signed == Len(s) > 0 /\ s[1] \in {"+", "-"}
        ds     == IF signed THEN Tail(s) ELSE s
        syntax == Len(ds) > 0 /\ \A i \in 1..Len(ds) : IsDigit(ds[i])
    IN  IF ~syntax THEN [ok |-> FALSE, val |-> 0]
        ELSE IF Len(StripZeros(ds)) > MaxInt64Digits THEN [ok |-> FALSE, val |-> 0]
        ELSE [ok  |-> TRUE,
              val |-> IF s[1] = "-" THEN 0 - DecimalValue(ds) ELSE DecimalValue(ds)]
\* ------------------------------------------------------------------------
\* The remote-URL classifier
\* ------------------------------------------------------------------------

\* getGitRepoDetails, lines 280-290: the trimmed output of `git config`,
\* with the SSH or the HTTPS form rewritten to host/path.
NormalizeURL(out) ==
    LET url == TrimSpace(out)
    IN  IF HasPrefix(url, <<"g", "i", "t", "@">>)
        THEN TrimSuffix(TrimPrefix(ReplaceFirst(url, <<":">>, <<"/">>), <<"g", "i", "t", "@">>), <<".", "g", "i", "t">>)
        ELSE IF HasPrefix(url, <<"h", "t", "t", "p", "s", ":", "/", "/">>)
        THEN TrimSuffix(TrimPrefix(url, <<"h", "t", "t", "p", "s", ":", "/", "/">>), <<".", "g", "i", "t">>)
        ELSE url

\* The fewest segments getGitRepoDetails accepts (host, owner, repo).
MinSegments == 3

\* A fixed owner/repo split in place of the full path: subgroups are lost.
GroupPath_FixedArity(parts) == Join(SubSeq(parts, 2, 3), <<"/">>)

\* Line 302: everything after the host, joined by "/".
GroupPath(parts) == Join(Tail(parts), <<"/">>)

\* getGitRepoDetails: gitOk is whether `git config --get remote.origin.url`
\* succeeded, out its standard output.  [err, first, second].
getGitRepoDetails(gitOk, out) ==
    LET parts == Split(NormalizeURL(out), <<"/">>)
    IN  IF ~gitOk THEN [err |-> TRUE, first |-> <<>>, second |-> <<>>]
        ELSE IF Len(parts) < MinSegments
        THEN [err |-> TRUE, first |-> <<>>, second |-> <<>>]
        ELSE IF Contains(parts[1], <<"g", "i", "t", "h", "u", "b", ".", "c", "o", "m">>)
        THEN [err |-> FALSE, first |-> parts[2], second |-> parts[3]]
        ELSE [err |-> FALSE, first |-> GroupPath(parts), second |-> <<>>]

\* detectPlatform: a substring test on the lowercased raw output.
detectPlatform(gitOk, out) ==
    LET url == ToLower(out)
    IN  IF ~gitOk THEN [err |-> TRUE, platform |-> ""]
        ELSE IF Contains(url, <<"g", "i", "t", "h", "u", "b", ".", "c", "o", "m">>) THEN [err |-> FALSE, platform |-> "github"]
        ELSE IF Contains(url, <<"g", "i", "t", "l", "a", "b", ".", "c", "o", "m">>) THEN [err |-> FALSE, platform |-> "gitlab"]
        ELSE [err |-> TRUE, platform |-> ""]

\* ------------------------------------------------------------------------
\* The reviewers
\* ------------------------------------------------------------------------

NoReviewer == [kind |-> "none", owner |-> <<>>, repo |-> <<>>, projectPath |-> <<>>]

\* NewGitHubReviewer: the token first, then the repository details.
NewGitHubReviewer(tokenOk, gitOk, out) ==
    LET d == getGitRepoDetails(gitOk, out)
    IN  IF ~tokenOk \/ d.err THEN [err |-> TRUE, reviewer |-> NoReviewer]
        ELSE [err |-> FALSE,
              reviewer |-> [kind |-> "github", owner |-> d.first, repo |-> d.second,
                            projectPath |-> <<>>]]

\* NewGitLabReviewer: the second result of getGitRepoDetails is dropped.
NewGitLabReviewer(gitOk, out) ==
    LET d == getGitRepoDetails(gitOk, out)
    IN  IF d.err THEN [err |-> TRUE, reviewer |-> NoReviewer]
        ELSE [err |-> FALSE,
              reviewer |-> [kind |-> "gitlab", owner |-> <<>>, repo |-> <<>>,
                            projectPath |-> d.first]]

GetRepoPath(r) ==
    IF r.kind = "github" THEN r.owner \o <<"/">> \o r.repo ELSE r.projectPath

PlatformName(r) ==
    IF r.kind = "github" THEN "GitHub Pull Request" ELSE "GitLab Merge Request"

\* The command GetDiff runs: gh pr diff or glab mr diff, the number, --repo.
DiffCommand(r, reviewNumber, repoPath) ==
    [tool   |-> IF r.kind = "github" THEN "gh" ELSE "glab",
     number |-> reviewNumber,
     repo   |-> repoPath]

\* ------------------------------------------------------------------------
\* Reviews and the two listings
\* ------------------------------------------------------------------------

\* GitHubReviewer.ListReviews, the mapping of one pull request.
ReviewOfPR(pr) ==
    [ID |-> pr.id, Number |-> pr.number, Title |-> pr.title, Body |-> pr.body,
     AuthorLogin |-> pr.login, AuthorName |-> <<>>, DiffURL |-> pr.diffURL,
     NumberGH |-> pr.number]

GitHubListReviews(prs) == [i \in 1..Len(prs) |-> ReviewOfPR(prs[i])]

\* The fewest whitespace-delimited tokens of a merge-request line.
MinParts == 4

\* The title cut at the first "(" instead of the last.
TitleOf_FirstParen(parts) ==
    LET title       == Join(SubSeq(parts, 3, Len(parts)), <<" ">>)
        branchStart == Index(title, <<"(">>)
        branchEnd   == LastIndex(title, <<")">>)
    IN  IF branchStart # -1 /\ branchEnd # -1 /\ branchEnd > branchStart
        THEN TrimSpace(SliceTo(title, branchStart))
        ELSE title

\* Lines 156-164: the tail joined by single spaces, cut before its last "("
\* when the last ")" lies after it.
TitleOf(parts) ==
    LET title       == Join(SubSeq(parts, 3, Len(parts)), <<" ">>)
        branchStart == LastIndex(title, <<"(">>)
        branchEnd   == LastIndex(title, <<")">>)
    IN  IF branchStart # -1 /\ branchEnd # -1 /\ branchEnd > branchStart
        THEN TrimSpace(SliceTo(title, branchStart))
        ELSE title

\* The marker test left out: only blank and header lines are passed over.
SkippedLine_NoMarkerTest(line) == line = <<>> \/ HasPrefix(line, <<"S", "h", "o", "w", "i", "n", "g">>)

\* Lines 131-134: the lines the loop passes over before tokenizing.
SkippedLine(line) ==
    line = <<>> \/ HasPrefix(line, <<"S", "h", "o", "w", "i", "n", "g">>) \/ HasPrefix(line, <<"!">>) = FALSE

\* The token test off by one.
TooFewParts_OffByOne(parts) == Len(parts) < MinParts - 1

\* Lines 137-140.
TooFewParts(parts) == Len(parts) < MinParts

\* The error of Atoi dropped: the zero value is taken as the number.
IIDOf_ErrorIgnored(token) ==
    [ok |-> TRUE, val |-> Atoi(TrimPrefix(token, <<"!">>)).val]

\* Lines 143-144: the number of token 0, the marker stripped.
IIDOf(token) == Atoi(TrimPrefix(token, <<"!">>))

\* One iteration of the loop of GitLabReviewer.ListReviews: the reviews it
\* appends (none or one) and whether it logged a warning.
ParseLine(raw) ==
    LET line  == TrimSpace(raw)
        parts == Fields(line)
        iid   == IIDOf(parts[1])
    IN  IF SkippedLine(line) THEN [reviews |-> <<>>, warned |-> FALSE]
        ELSE IF TooFewParts(parts) THEN [reviews |-> <<>>, warned |-> FALSE]
        ELSE IF ~iid.ok THEN [reviews |-> <<>>, warned |-> TRUE]
        ELSE [reviews |-> <<[ID |-> 0, Number |-> iid.val, Title |-> TitleOf(parts),
                             Body |-> <<>>, AuthorLogin |-> <<>>, AuthorName |-> <<>>,
                             DiffURL |-> <<>>, NumberGH |-> 0]>>,
              warned |-> FALSE]

RECURSIVE ParseLines(_)
ParseLines(lines) ==
    IF Len(lines) = 0 THEN <<>>
    ELSE ParseLine(lines[1]).reviews \o ParseLines(Tail(lines))

\* GitLabReviewer.ListReviews on the standard output of a successful
\* `glab mr list`.
GitLabListReviews(out) == ParseLines(Split(out, <<"\n">>))
\* ------------------------------------------------------------------------
\* main: the number shown, requested and printed
\* ------------------------------------------------------------------------

\* Lines 235-239: one item of the selection list, "#<number>: <title>".
PromptItem(r, plat) ==
    [number |-> IF plat = "github" THEN r.NumberGH ELSE r.Number, title |-> r.Title]

PromptItems(rs, plat) == [i \in 1..Len(rs) |-> PromptItem(rs[i], plat)]

\* The platform test inverted.
SelectedNumber_Inverted(r, plat) == IF plat = "gitlab" THEN r.NumberGH ELSE r.Number

\* Lines 254-257: the number main passes to GetDiff.
SelectedNumber(r, plat) == IF plat = "github" THEN r.NumberGH ELSE r.Number

\* generateAgentPrompt: the fields the template embeds.
generateAgentPrompt(review, diff, platformName, plat) ==
    [platformName |-> platformName,
     number       |-> IF plat = "github" THEN review.NumberGH ELSE review.Number,
     title        |-> review.Title,
     author       |-> IF plat = "github" THEN review.AuthorLogin ELSE review.AuthorName,
     body         |-> review.Body,
     diff         |-> diff]

\* The empty listing not told apart.
NoOpenReviews_Never(rs) == FALSE

\* Line 227: the listing is empty.
NoOpenReviews(rs) == Len(rs) = 0

\* The return after a failed prompt left out.
AfterSelect_NoReturn(failed) == "diff"

\* Lines 248-251: where main goes after prompt.Run.
AfterSelect(failed) == IF failed THEN "exited" ELSE "diff"

\* Lines 260-262 with 183-185 (and 91-93): the exit status when the diff
\* command fails.  A command that ran and exited non-zero is an ExitError,
\* returned and reported by log.Fatalf; any other failure (the tool is not
\* installed) is not an ExitError, and the type assertion panics.
DiffFailureExit(outcome) == IF outcome = "exit" THEN 1 ELSE 2

\* ------------------------------------------------------------------------
\* Inputs
\* ------------------------------------------------------------------------

\* All sequences over S of length at most n.
SeqsUpTo(S, n) == UNION {[1..k -> S] : k \in 0..n}

MaxSegs == 3
MaxLines == 2
MaxMainLines == 3
MaxPRs == 3

Schemes == {<<"g", "i", "t", "@">>, <<"h", "t", "t", "p", "s", ":", "/", "/">>, <<"h", "t", "t", "p", ":", "/", "/">>, <<"s", "s", "h", ":", "/", "/", "g", "i", "t", "@">>}
Hosts == {<<"g", "i", "t", "h", "u", "b", ".", "c", "o", "m">>, <<"g", "i", "t", "l", "a", "b", ".", "c", "o", "m">>, <<"G", "i", "t", "H", "u", "b", ".", "c", "o", "m">>, <<"e", "x", "a", "m", "p", "l", "e", ".", "o", "r", "g">>}
Separators == {<<":">>, <<"/">>}
PathSegs == {<<"a", "c", "m", "e">>, <<"t", "e", "a", "m">>, <<"w", "i", "d", "g", "e", "t", "s">>}
Suffixes == {<<".", "g", "i", "t">>, <<>>}

\* The remote URLs the classifier is applied to on its own.
ClassifyURLs ==
    {sch \o h \o sep \o Join(p, <<"/">>) \o suf :
        sch \in Schemes, h \in Hosts, sep \in Separators,
        p \in SeqsUpTo(PathSegs, MaxSegs), suf \in Suffixes}

\* The remote URLs main is run on.
MainURLs ==
    {<<"g", "i", "t", "@", "g", "i", "t", "h", "u", "b", ".", "c", "o", "m", ":", "a", "c", "m", "e", "/", "w", "i", "d", "g", "e", "t", "s", ".", "g", "i", "t">>,
     <<"h", "t", "t", "p", "s", ":", "/", "/", "g", "i", "t", "h", "u", "b", ".", "c", "o", "m", "/", "a", "c", "m", "e", "/", "w", "i", "d", "g", "e", "t", "s">>,
     <<"h", "t", "t", "p", "s", ":", "/", "/", "G", "i", "t", "H", "u", "b", ".", "c", "o", "m", "/", "a", "c", "m", "e", "/", "w", "i", "d", "g", "e", "t", "s", ".", "g", "i", "t">>,
     <<"h", "t", "t", "p", "s", ":", "/", "/", "g", "i", "t", "l", "a", "b", ".", "c", "o", "m", "/", "a", "c", "m", "e", "/", "t", "e", "a", "m", "/", "w", "i", "d", "g", "e", "t", "s", ".", "g", "i", "t">>,
     <<"h", "t", "t", "p", "s", ":", "/", "/", "g", "i", "t", "l", "a", "b", ".", "c", "o", "m", "/", "a", "c", "m", "e">>,
     <<"h", "t", "t", "p", "s", ":", "/", "/", "e", "x", "a", "m", "p", "l", "e", ".", "o", "r", "g", "/", "a", "c", "m", "e", "/", "w", "i", "d", "g", "e", "t", "s", ".", "g", "i", "t">>}

\* `git config --get` prints the URL and a newline.
GitOutput(u) == u \o <<"\n">>

\* Lines of `glab mr list` output.
ListingLines ==
    {<<"!", "4", "2", " ", "g", "r", "o", "u", "p", "/", "r", "e", "p", "o", " ", "F", "i", "x", " ", "l", "o", "g", "i", "n", " ", "b", "u", "g", " ", "(", "f", "i", "x", "-", "l", "o", "g", "i", "n", " ", "←", " ", "m", "a", "i", "n", ")">>,
     <<"!", "7", " ", "g", "r", "o", "u", "p", "/", "r", "e", "p", "o", " ", "R", "e", "f", "a", "c", "t", "o", "r", " ", "p", "a", "r", "s", "e", "r">>,
     <<" ", " ", "!", "1", "3", "\t", "g", "r", "o", "u", "p", "/", "r", "e", "p", "o", " ", " ", "F", "i", "x", " ", "(", "a", ")", " ", "b", "u", "g", " ", "(", "b", ")", " ", " ">>,
     <<"!", "9", " ", "g", "/", "r", " ", "F", "i", "x", " ", "(", "b", ")", " ", "e", "x", "t", "r", "a", " ", "w", "o", "r", "d", "s">>,
     <<"!", "8", " ", "g", "/", "r", " ", "W", "e", "i", "r", "d", " ", ")", " ", "p", "a", "r", "e", "n", " ", "(", " ", "o", "r", "d", "e", "r">>,
     <<"!", "+", "3", " ", "g", "/", "r", " ", "(", "o", "n", "l", "y", " ", "b", "r", "a", "n", "c", "h", ")">>,
     <<"!", "-", "4", " ", "g", "/", "r", " ", "o", "p", "e", "n", " ", "(", " ", "o", "n", "l", "y">>,
     <<"!", "5", " ", "g", "r", "o", "u", "p", "/", "r", "e", "p", "o", " ", "S", "h", "o", "r", "t">>,
     <<"!", "x", "9", " ", "g", "r", "o", "u", "p", "/", "r", "e", "p", "o", " ", "B", "a", "d", " ", "n", "u", "m", "b", "e", "r", " ", "h", "e", "r", "e">>,
     <<"!", "!", " ", "g", "/", "r", " ", "N", "o", " ", "n", "u", "m", "b", "e", "r", " ", "h", "e", "r", "e">>,
     <<"!", "9", "9", "9", "9", "9", "9", "9", "9", "9", "9", "9", "9", "9", "9", "9", "9", "9", "9", "9", "9", " ", "g", "/", "r", " ", "T", "o", "o", " ", "b", "i", "g", " ", "(", "b", ")">>,
     <<"!">>,
     <<"S", "h", "o", "w", "i", "n", "g", " ", "2", " ", "o", "p", "e", "n", " ", "m", "e", "r", "g", "e", " ", "r", "e", "q", "u", "e", "s", "t", "s", " ", "o", "n", " ", "g", "r", "o", "u", "p", "/", "r", "e", "p", "o", " ", "(", "P", "a", "g", "e", " ", "1", ")">>,
     <<"1", "2", " ", "g", "r", "o", "u", "p", "/", "r", "e", "p", "o", " ", "N", "o", " ", "m", "a", "r", "k", "e", "r", " ", "h", "e", "r", "e">>,
     <<>>}

MainListingLines ==
    {<<"!", "4", "2", " ", "g", "r", "o", "u", "p", "/", "r", "e", "p", "o", " ", "F", "i", "x", " ", "l", "o", "g", "i", "n", " ", "b", "u", "g", " ", "(", "f", "i", "x", "-", "l", "o", "g", "i", "n", " ", "←", " ", "m", "a", "i", "n", ")">>,
     <<"!", "7", " ", "g", "r", "o", "u", "p", "/", "r", "e", "p", "o", " ", "R", "e", "f", "a", "c", "t", "o", "r", " ", "p", "a", "r", "s", "e", "r">>,
     <<"!", "x", "9", " ", "g", "r", "o", "u", "p", "/", "r", "e", "p", "o", " ", "B", "a", "d", " ", "n", "u", "m", "b", "e", "r", " ", "h", "e", "r", "e">>,
     <<"S", "h", "o", "w", "i", "n", "g", " ", "2", " ", "o", "p", "e", "n", " ", "m", "e", "r", "g", "e", " ", "r", "e", "q", "u", "e", "s", "t", "s", " ", "o", "n", " ", "g", "r", "o", "u", "p", "/", "r", "e", "p", "o", " ", "(", "P", "a", "g", "e", " ", "1", ")">>}

\* The standard output made of the lines ls, each ended by a newline.
OutputOf(ls) == IF Len(ls) = 0 THEN <<>> ELSE Join(ls, <<"\n">>) \o <<"\n">>

ListingOutputs == {OutputOf(ls) : ls \in SeqsUpTo(ListingLines, MaxLines)}

MainListingOutputs == {OutputOf(ls) : ls \in SeqsUpTo(MainListingLines, MaxMainLines)}

\* Open pull requests as the API returns them.
PullRequests ==
    {[id |-> 9001, number |-> 12, title |-> <<"A", "d", "d", " ", "c", "a", "c", "h", "e">>, body |-> <<"b", "o", "d", "y">>,
      login |-> <<"a", "n", "n">>, diffURL |-> <<"u", "1", "2">>],
     [id |-> 9002, number |-> 15, title |-> <<"F", "i", "x", " ", "(", "x", ")">>, body |-> <<>>,
      login |-> <<"b", "o", "b">>, diffURL |-> <<"u", "1", "5">>]}

PullRequestLists == SeqsUpTo(PullRequests, MaxPRs)

DiffTexts == {<<>>, <<"+", "a">>}

\* How an external command ends: it succeeds, it runs and exits non-zero,
\* or it cannot be started.
FailedOutcomes == {"exit", "notfound"}
\* ------------------------------------------------------------------------
\* State
\* ------------------------------------------------------------------------

VARIABLES
    \* main
    pc,            \* where main stands: detect, init, list, select, diff, exited
    url,           \* remote.origin.url of the repository
    platform,      \* the result of detectPlatform
    reviewer,      \* the CodeReviewer main built
    listing,       \* what the listing source returned: the PRs, or glab's output
    reviews,       \* the result of reviewer.ListReviews()
    promptItems,   \* the items of the selection list
    selectedIndex, \* the index prompt.Run returned (0-based), -1 before
    diffCalls,     \* the commands GetDiff ran, in order
    printed,       \* the prompts printed, in order
    steps,         \* the steps main took, in order
    failure,       \* the step that raised an error, "" if none
    exitCode,      \* the exit status of the process, -1 while it runs
    \* the call of the classifier on its own
    cUrl, cDetails, cPlatform,
    \* GitLabReviewer.ListReviews, one loop iteration at a time
    ppc,           \* exec, loop, returned, failed
    pOut,          \* the standard output of `glab mr list`
    pLines,        \* lines
    pIdx,          \* the index of the next line of the range loop (1-based)
    pReviews,      \* reviews
    pOrigin,       \* for each review, the index of the line that produced it
    pWarnings,     \* the indexes of the lines a warning was logged for
    pPass,         \* 1 in the first call on pOut, 2 in the second
    pFirst         \* what the first call returned

mainVars ==
    <<pc, url, platform, reviewer, listing, reviews, promptItems, selectedIndex,
      diffCalls, printed, steps, failure, exitCode>>

classifyVars == <<cUrl, cDetails, cPlatform>>

parseVars == <<ppc, pOut, pLines, pIdx, pReviews, pOrigin, pWarnings, pPass, pFirst>>

vars == <<mainVars, classifyVars, parseVars>>

NotCalled == [called |-> FALSE]

MainIdle ==
    /\ pc = "idle" /\ url = <<>> /\ platform = "" /\ reviewer = NoReviewer
    /\ listing = <<>> /\ reviews = <<>> /\ promptItems = <<>> /\ selectedIndex = -1
    /\ diffCalls = <<>> /\ printed = <<>> /\ steps = <<>> /\ failure = ""
    /\ exitCode = -1

ClassifyIdle == cUrl = <<>> /\ cDetails = NotCalled /\ cPlatform = NotCalled

ParseIdle ==
    /\ ppc = "idle" /\ pOut = <<>> /\ pLines = <<>> /\ pIdx = 0 /\ pReviews = <<>>
    /\ pOrigin = <<>> /\ pWarnings = {} /\ pPass = 0 /\ pFirst = <<>>

\* ------------------------------------------------------------------------
\* main
\* ------------------------------------------------------------------------

\* The process starts in a repository whose remote is one of MainURLs.
Init ==
    /\ pc = "detect" /\ url \in MainURLs /\ platform = "" /\ reviewer = NoReviewer
    /\ listing = <<>> /\ reviews = <<>> /\ promptItems = <<>> /\ selectedIndex = -1
    /\ diffCalls = <<>> /\ printed = <<>> /\ steps = <<>> /\ failure = ""
    /\ exitCode = -1
    /\ ClassifyIdle /\ ParseIdle

\* log.Fatalf (status 1) or a panic (status 2) in the step named.
Abort(step, status) ==
    /\ pc' = "exited" /\ failure' = step /\ exitCode' = status

\* Lines 201-204.
DetectPlatform ==
    /\ pc = "detect"
    /\ steps' = Append(steps, "detect")
    /\ \E gitOk \in BOOLEAN :
          LET r == detectPlatform(gitOk, GitOutput(url))
          IN  IF r.err
              THEN Abort("detect", 1) /\ UNCHANGED platform
              ELSE pc' = "init" /\ platform' = r.platform
                   /\ UNCHANGED <<failure, exitCode>>
    /\ UNCHANGED <<url, reviewer, listing, reviews, promptItems, selectedIndex,
                   diffCalls, printed>>
    /\ UNCHANGED <<classifyVars, parseVars>>

\* Lines 206-220: the reviewer of the detected platform, or the fatal error.
BuildReviewer(r) ==
    /\ steps' = Append(steps, "init")
    /\ IF r.err
       THEN Abort("init", 1) /\ UNCHANGED reviewer
       ELSE pc' = "list" /\ reviewer' = r.reviewer /\ UNCHANGED <<failure, exitCode>>
    /\ UNCHANGED <<url, platform, listing, reviews, promptItems, selectedIndex,
                   diffCalls, printed>>
    /\ UNCHANGED <<classifyVars, parseVars>>

InitGitHub ==
    /\ pc = "init" /\ platform = "github"
    /\ \E tokenOk \in BOOLEAN, gitOk \in BOOLEAN :
          BuildReviewer(NewGitHubReviewer(tokenOk, gitOk, GitOutput(url)))

InitGitLab ==
    /\ pc = "init" /\ platform = "gitlab"
    /\ \E gitOk \in BOOLEAN : BuildReviewer(NewGitLabReviewer(gitOk, GitOutput(url)))

\* Lines 222-240 after a listing that succeeded with rs: the empty listing
\* returns from main, any other builds the selection list.
Listed(src, rs) ==
    /\ steps' = Append(steps, "list")
    /\ listing' = src
    /\ reviews' = rs
    /\ IF NoOpenReviews(rs)
       THEN pc' = "exited" /\ exitCode' = 0 /\ UNCHANGED promptItems
       ELSE pc' = "select" /\ promptItems' = PromptItems(rs, platform)
            /\ UNCHANGED exitCode
    /\ UNCHANGED <<url, platform, reviewer, selectedIndex, diffCalls, printed, failure>>
    /\ UNCHANGED <<classifyVars, parseVars>>

\* Lines 222-225 when the listing fails with the exit status given.
ListFailed(status) ==
    /\ steps' = Append(steps, "list")
    /\ Abort("list", status)
    /\ UNCHANGED <<url, platform, reviewer, listing, reviews, promptItems,
                   selectedIndex, diffCalls, printed>>
    /\ UNCHANGED <<classifyVars, parseVars>>

\* GitHubReviewer.ListReviews: the API call returns the open PRs or an error.
ListGitHub ==
    /\ pc = "list" /\ reviewer.kind = "github"
    /\ \/ \E prs \in PullRequestLists : Listed(prs, GitHubListReviews(prs))
       \/ ListFailed(1)

\* GitLabReviewer.ListReviews: `glab mr list` succeeds and its output is
\* parsed, or it fails: with an ExitError the error is returned, with any
\* other error the type assertion of line 125 panics.
ListGitLab ==
    /\ pc = "list" /\ reviewer.kind = "gitlab"
    /\ \/ \E out \in MainListingOutputs : Listed(out, GitLabListReviews(out))
       \/ \E o \in FailedOutcomes : ListFailed(IF o = "exit" THEN 1 ELSE 2)

\* Lines 242-251: the user picks an item, or prompt.Run fails and main
\* prints "Prompt failed" and returns.
Select ==
    /\ pc = "select"
    /\ steps' = Append(steps, "select")
    /\ \/ \E i \in 0..(Len(promptItems) - 1) :
            /\ selectedIndex' = i
            /\ pc' = AfterSelect(FALSE)
            /\ UNCHANGED <<failure, exitCode>>
       \/ /\ pc' = AfterSelect(TRUE)
          /\ failure' = "select"
          /\ exitCode' = 0
          /\ UNCHANGED selectedIndex
    /\ UNCHANGED <<url, platform, reviewer, listing, reviews, promptItems,
                   diffCalls, printed>>
    /\ UNCHANGED <<classifyVars, parseVars>>

\* Lines 253-267: the diff of the selected review, then the prompt.
GetDiff ==
    /\ pc = "diff"
    /\ LET selectedReview == reviews[selectedIndex + 1]
           number == SelectedNumber(selectedReview, platform)
       IN  /\ diffCalls' = Append(diffCalls,
                                  DiffCommand(reviewer, number, GetRepoPath(reviewer)))
           /\ \/ \E diff \in DiffTexts :
                   /\ printed' = Append(printed,
                          generateAgentPrompt(selectedReview, diff,
                                              PlatformName(reviewer), platform))
                   /\ steps' = steps \o <<"diff", "compose", "print">>
                   /\ pc' = "exited" /\ exitCode' = 0
                   /\ UNCHANGED failure
              \/ \E o \in FailedOutcomes :
                   /\ steps' = Append(steps, "diff")
                   /\ Abort("diff", DiffFailureExit(o))
                   /\ UNCHANGED printed
    /\ UNCHANGED <<url, platform, reviewer, listing, reviews, promptItems, selectedIndex>>
    /\ UNCHANGED <<classifyVars, parseVars>>

Next ==
    \/ DetectPlatform
    \/ InitGitHub
    \/ InitGitLab
    \/ ListGitHub
    \/ ListGitLab
    \/ Select
    \/ GetDiff

Spec == Init /\ [][Next]_vars
\* ------------------------------------------------------------------------
\* The classifier on its own: both functions applied to one remote URL
\* ------------------------------------------------------------------------

InitClassify ==
    /\ cUrl \in ClassifyURLs /\ cDetails = NotCalled /\ cPlatform = NotCalled
    /\ MainIdle /\ ParseIdle

CallDetectPlatform ==
    /\ cPlatform = NotCalled
    /\ \E gitOk \in BOOLEAN :
          cPlatform' = [called |-> TRUE, gitOk |-> gitOk,
                        result |-> detectPlatform(gitOk, GitOutput(cUrl))]
    /\ UNCHANGED <<cUrl, cDetails, mainVars, parseVars>>

CallGetGitRepoDetails ==
    /\ cDetails = NotCalled
    /\ \E gitOk \in BOOLEAN :
          cDetails' = [called |-> TRUE, gitOk |-> gitOk,
                       result |-> getGitRepoDetails(gitOk, GitOutput(cUrl))]
    /\ UNCHANGED <<cUrl, cPlatform, mainVars, parseVars>>

NextClassify == CallDetectPlatform \/ CallGetGitRepoDetails

SpecClassify == InitClassify /\ [][NextClassify]_vars
\* ------------------------------------------------------------------------
\* GitLabReviewer.ListReviews, one loop iteration at a time, called twice
\* on the same output
\* ------------------------------------------------------------------------

InitParse ==
    /\ ppc = "exec" /\ pOut \in ListingOutputs /\ pLines = <<>> /\ pIdx = 0
    /\ pReviews = <<>> /\ pOrigin = <<>> /\ pWarnings = {} /\ pPass = 1
    /\ pFirst = <<>>
    /\ MainIdle /\ ClassifyIdle

\* Lines 120-129: the command runs; on success its output is split in lines.
GlabList ==
    /\ ppc = "exec"
    /\ \/ /\ ppc' = "loop"
          /\ pLines' = Split(pOut, <<"\n">>)
          /\ pIdx' = 1
       \/ /\ ppc' = "failed"
          /\ UNCHANGED <<pLines, pIdx>>
    /\ UNCHANGED <<pOut, pReviews, pOrigin, pWarnings, pPass, pFirst>>
    /\ UNCHANGED <<mainVars, classifyVars>>

\* Lines 130-174: one iteration of the range loop.
ParseNextLine ==
    /\ ppc = "loop" /\ pIdx <= Len(pLines)
    /\ LET r == ParseLine(pLines[pIdx])
       IN  /\ pReviews' = pReviews \o r.reviews
           /\ pOrigin' = IF Len(r.reviews) > 0 THEN Append(pOrigin, pIdx) ELSE pOrigin
           /\ pWarnings' = IF r.warned THEN pWarnings \cup {pIdx} ELSE pWarnings
    /\ pIdx' = pIdx + 1
    /\ UNCHANGED <<ppc, pOut, pLines, pPass, pFirst>>
    /\ UNCHANGED <<mainVars, classifyVars>>

\* Line 175: the loop is over and reviews is returned.
ReturnReviews ==
    /\ ppc = "loop" /\ pIdx > Len(pLines)
    /\ ppc' = "returned"
    /\ pFirst' = IF pPass = 1 THEN pReviews ELSE pFirst
    /\ UNCHANGED <<pOut, pLines, pIdx, pReviews, pOrigin, pWarnings, pPass>>
    /\ UNCHANGED <<mainVars, classifyVars>>

\* A second call of ListReviews, the command printing the same output.
ListAgain ==
    /\ ppc = "returned" /\ pPass = 1
    /\ ppc' = "loop"
    /\ pPass' = 2
    /\ pLines' = Split(pOut, <<"\n">>)
    /\ pIdx' = 1
    /\ pReviews' = <<>>
    /\ pOrigin' = <<>>
    /\ pWarnings' = {}
    /\ UNCHANGED <<pOut, pFirst>>
    /\ UNCHANGED <<mainVars, classifyVars>>

NextParse == GlabList \/ ParseNextLine \/ ReturnReviews \/ ListAgain

SpecParse == InitParse /\ [][NextParse]_vars
\* ------------------------------------------------------------------------
\* Properties of the pipeline (Spec)
\* ------------------------------------------------------------------------

StepTaken(s) == \E i \in DOMAIN steps : steps[i] = s

ListingSucceeded == StepTaken("list") /\ failure # "list"

SelectionSucceeded == StepTaken("select") /\ failure # "select"

Pipeline == <<"detect", "init", "list", "select", "diff", "compose", "print">>

\* C1: when ListReviews succeeds with an empty sequence, the run ends
\* normally (status 0, nothing left to do) and has neither asked for a
\* selection, nor called GetDiff, nor printed a prompt.
C1_EmptyListingEndsRun ==
    (ListingSucceeded /\ reviews = <<>>) =>
        /\ pc = "exited" /\ exitCode = 0 /\ failure = ""
        /\ ~ENABLED Next
        /\ ~StepTaken("select") /\ promptItems = <<>> /\ selectedIndex = -1
        /\ diffCalls = <<>> /\ ~StepTaken("diff")
        /\ printed = <<>>

\* A GitLab listing that printed lines, none of them a merge request, and
\* ended the run.
C1_Witness ==
    /\ ListingSucceeded /\ reviews = <<>> /\ pc = "exited"
    /\ reviewer.kind = "gitlab" /\ listing # <<>>

\* C2: every error other than a parse warning (detection, initialisation,
\* listing, selection, diff) ends the run aborted with a non-zero exit
\* status, and no step runs after the one that failed.
C2_EveryErrorExitsNonZero ==
    failure # "" =>
        /\ pc = "exited"
        /\ exitCode > 0
        /\ steps[Len(steps)] = failure
        /\ printed = <<>>

\* C3: the steps run in the fixed order detect, init (classify), list,
\* select, diff, compose, print; GetDiff is called only after a non-empty
\* listing and a selection that both succeeded; the prompt is printed only
\* after GetDiff succeeded; the listing and the diff are each called at
\* most once.
C3_FixedOrderNoRetry ==
    /\ Len(steps) <= Len(Pipeline)
    /\ steps = SubSeq(Pipeline, 1, Len(steps))
    /\ Cardinality({i \in DOMAIN steps : steps[i] = "list"}) <= 1
    /\ Len(diffCalls) <= 1
    /\ (pc = "diff" \/ diffCalls # <<>>) =>
          /\ ListingSucceeded /\ reviews # <<>>
          /\ SelectionSucceeded /\ selectedIndex \in 0..(Len(reviews) - 1)
    /\ (diffCalls # <<>>) <=> StepTaken("diff")
    /\ printed # <<>> =>
          /\ Len(printed) = 1 /\ Len(diffCalls) = 1
          /\ failure = "" /\ steps = Pipeline

\* A run that went through every step.
C3_Witness == steps = Pipeline /\ printed # <<>> /\ pc = "exited" /\ exitCode = 0

\* C10: on both platforms the number GetDiff is called with, the number of
\* the selected item of the list and the number in the printed prompt are
\* one number, the PR number or MR IID of the review at the selected index
\* of the listing; the prompt carries that review's title.
C10_OneNumberThroughout ==
    diffCalls # <<>> =>
        LET k == selectedIndex + 1
            n == reviews[k].Number
        IN  /\ k \in DOMAIN reviews
            /\ diffCalls[1].number = n
            /\ promptItems[k].number = n
            /\ promptItems[k].title = reviews[k].Title
            /\ platform = "github" => n = listing[k].number
            /\ diffCalls[1].repo = GetRepoPath(reviewer)
            /\ printed # <<>> =>
                  /\ printed[1].number = n
                  /\ printed[1].title = reviews[k].Title

\* The second of two merge requests selected, its diff fetched, its
\* prompt printed.
C10_Witness ==
    /\ printed # <<>> /\ platform = "gitlab" /\ selectedIndex = 1
    /\ Len(reviews) >= 2 /\ reviews[1].Number # reviews[2].Number
    /\ printed[1].number = reviews[2].Number
\* ------------------------------------------------------------------------
\* Properties of the classifier (SpecClassify)
\* ------------------------------------------------------------------------

\* The positions of "/" in n, and the k-th of them.
Slashes(n) == {i \in 1..Len(n) : n[i] = "/"}

NthSlash(n, k) ==
    CHOOSE i \in Slashes(n) : Cardinality({j \in Slashes(n) : j <= i}) = k

SegmentCount(n) == Cardinality(Slashes(n)) + 1

\* The k-th "/"-delimited segment of n (k from 0, as in the code).
Segment(n, k) ==
    SubSeq(n,
           IF k = 0 THEN 1 ELSE NthSlash(n, k) + 1,
           IF k + 1 < SegmentCount(n) THEN NthSlash(n, k + 1) - 1 ELSE Len(n))

\* Everything after the first "/".
AfterHost(n) == SubSeq(n, NthSlash(n, 1) + 1, Len(n))

HasMarker(s, marker) == \E i \in 0..Len(s) : MatchAt(s, marker, i)

\* C4: for every remote URL git hands over, with n the normalized URL:
\* fewer than 3 "/"-segments is an error; otherwise a host segment that
\* contains github.com gives (segment 1, segment 2); otherwise the result
\* is (everything after the host, "").  git@github.com:acme/widgets.git
\* gives (acme, widgets); https://gitlab.com/acme/team/widgets.git gives
\* (acme/team/widgets, "").
C4_ClassifierResult ==
    (cDetails.called /\ cDetails.gitOk) =>
        LET n == NormalizeURL(GitOutput(cUrl))
            r == cDetails.result
        IN  /\ IF SegmentCount(n) < 3
               THEN r.err
               ELSE IF HasMarker(Segment(n, 0), <<"g", "i", "t", "h", "u", "b", ".", "c", "o", "m">>)
               THEN ~r.err /\ r.first = Segment(n, 1) /\ r.second = Segment(n, 2)
               ELSE ~r.err /\ r.first = AfterHost(n) /\ r.second = <<>>
            /\ cUrl = <<"g", "i", "t", "@", "g", "i", "t", "h", "u", "b", ".", "c", "o", "m", ":", "a", "c", "m", "e", "/", "w", "i", "d", "g", "e", "t", "s", ".", "g", "i", "t">> =>
                  r = [err |-> FALSE, first |-> <<"a", "c", "m", "e">>, second |-> <<"w", "i", "d", "g", "e", "t", "s">>]
            /\ cUrl = <<"h", "t", "t", "p", "s", ":", "/", "/", "g", "i", "t", "l", "a", "b", ".", "c", "o", "m", "/", "a", "c", "m", "e", "/", "t", "e", "a", "m", "/", "w", "i", "d", "g", "e", "t", "s", ".", "g", "i", "t">> =>
                  r = [err |-> FALSE, first |-> <<"a", "c", "m", "e", "/", "t", "e", "a", "m", "/", "w", "i", "d", "g", "e", "t", "s">>, second |-> <<>>]

\* The subgrouped GitLab project classified.
C4_Witness ==
    /\ cDetails.called /\ cDetails.gitOk
    /\ cUrl = <<"h", "t", "t", "p", "s", ":", "/", "/", "g", "i", "t", "l", "a", "b", ".", "c", "o", "m", "/", "a", "c", "m", "e", "/", "t", "e", "a", "m", "/", "w", "i", "d", "g", "e", "t", "s", ".", "g", "i", "t">>
    /\ cDetails.result.first = <<"a", "c", "m", "e", "/", "t", "e", "a", "m", "/", "w", "i", "d", "g", "e", "t", "s">>

\* C5: for every URL detectPlatform calls github, getGitRepoDetails on that
\* URL gives the two-level owner/repo form with a non-empty repo name, and
\* for every URL it calls gitlab, the single joined path with an empty
\* second component.
C5_ShapeFollowsDetection ==
    (/\ cPlatform.called /\ cPlatform.gitOk /\ ~cPlatform.result.err
     /\ cDetails.called /\ cDetails.gitOk /\ ~cDetails.result.err) =>
        LET n == NormalizeURL(GitOutput(cUrl))
            r == cDetails.result
        IN  /\ cPlatform.result.platform = "github" =>
                  /\ r.second # <<>>
                  /\ r.first = Segment(n, 1) /\ r.second = Segment(n, 2)
            /\ cPlatform.result.platform = "gitlab" =>
                  /\ r.second = <<>>
                  /\ r.first = AfterHost(n)

\* The half of C5 the code keeps: a URL detected as gitlab is never given
\* the owner/repo form.
GitLabShapeFollowsDetection ==
    (/\ cPlatform.called /\ cPlatform.gitOk /\ ~cPlatform.result.err
     /\ cDetails.called /\ cDetails.gitOk /\ ~cDetails.result.err
     /\ cPlatform.result.platform = "gitlab") =>
        /\ cDetails.result.second = <<>>
        /\ cDetails.result.first = AfterHost(NormalizeURL(GitOutput(cUrl)))
\* ------------------------------------------------------------------------
\* Properties of the text parser (SpecParse)
\* ------------------------------------------------------------------------

\* The positions where a whitespace-delimited token of s starts and ends.
TokenStarts(s) ==
    {i \in 1..Len(s) : ~IsSpace(s[i]) /\ (i = 1 \/ IsSpace(s[i - 1]))}

TokenEnds(s) ==
    {i \in 1..Len(s) : ~IsSpace(s[i]) /\ (i = Len(s) \/ IsSpace(s[i + 1]))}

TokenCount(s) == Cardinality(TokenStarts(s))

\* The k-th token of s (k from 1).
Token(s, k) ==
    LET b == CHOOSE i \in TokenStarts(s) :
                Cardinality({j \in TokenStarts(s) : j <= i}) = k
        e == CHOOSE i \in TokenEnds(s) :
                Cardinality({j \in TokenEnds(s) : j <= i}) = k
    IN  SubSeq(s, b, e)

\* The line starts, after its leading whitespace, with the marker "!".
HasMarkerPrefix(s) == TokenCount(s) > 0 /\ Token(s, 1)[1] = "!"

\* An optional sign and at least one digit, no more digits than an int holds.
IntegerText(t) ==
    LET ds == IF Len(t) > 0 /\ t[1] \in {"+", "-"} THEN SubSeq(t, 2, Len(t)) ELSE t
    IN  /\ Len(ds) > 0
        /\ \A i \in 1..Len(ds) : ds[i] \in {"0", "1", "2", "3", "4", "5", "6", "7", "8", "9"}
        /\ Len(ds) <= MaxInt64Digits

\* Token 0 of a marker line, the marker stripped.
NumberText(s) == SubSeq(Token(s, 1), 2, Len(Token(s, 1)))

\* The lines ListReviews accepts: marker, at least 4 tokens, a number.
Accepted(s) == HasMarkerPrefix(s) /\ TokenCount(s) >= 4 /\ IntegerText(NumberText(s))

\* The lines the loop has gone through.
Processed == IF ppc \in {"loop", "returned"} THEN 1..(pIdx - 1) ELSE {}

ProducedReview(k) == \E i \in DOMAIN pOrigin : pOrigin[i] = k

EnoughTokens(s) == TokenCount(s) >= 4

\* ListReviews returns an error only when the command failed, before any
\* line was looked at; once in the loop it goes on to return its reviews.
ListingFailedOnlyAtExec ==
    /\ ppc = "failed" => pLines = <<>> /\ pIdx = 0 /\ pReviews = <<>>
    /\ ppc = "loop" => pIdx \in 1..(Len(pLines) + 1)

\* C6: a line with fewer than 4 whitespace-delimited tokens produces no
\* Review and does not fail the listing, and the Reviews of the other
\* lines are what they are without it.
C6_ShortLinesSkipped ==
    /\ \A k \in Processed : TokenCount(pLines[k]) < 4 => ~ProducedReview(k)
    /\ ListingFailedOnlyAtExec
    /\ ppc = "returned" => pReviews = ParseLines(SelectSeq(pLines, EnoughTokens))

\* A marker line of three tokens passed over beside a line that gave a
\* Review.
C6_Witness ==
    /\ ppc = "returned" /\ Len(pReviews) = 1
    /\ \E k \in Processed :
          HasMarkerPrefix(pLines[k]) /\ TokenCount(pLines[k]) = 3

\* C7: when the command succeeded, a marker line whose number does not
\* parse is dropped (with a warning when it had its 4 tokens) and never
\* aborts the listing: ListReviews returns the Reviews of every accepted
\* line.
C7_BadNumberDropped ==
    /\ \A k \in Processed :
          (HasMarkerPrefix(pLines[k]) /\ ~IntegerText(NumberText(pLines[k]))) =>
              /\ ~ProducedReview(k)
              /\ TokenCount(pLines[k]) >= 4 => k \in pWarnings
    /\ ListingFailedOnlyAtExec
    /\ \A k \in Processed : Accepted(pLines[k]) => ProducedReview(k)

\* A line with an unparsable number dropped with its warning beside a line
\* that gave a Review.
C7_Witness ==
    /\ ppc = "returned" /\ Len(pReviews) = 1 /\ pWarnings # {}
    /\ \E k \in pWarnings : ~IntegerText(NumberText(pLines[k]))

\* Tokens 2.. of s joined by single spaces.
RECURSIVE TailFrom(_, _)
TailFrom(s, k) ==
    IF k > TokenCount(s) THEN <<>>
    ELSE IF k = TokenCount(s) THEN Token(s, k)
    ELSE Token(s, k) \o <<" ">> \o TailFrom(s, k + 1)

Positions(s, c) == {i \in 1..Len(s) : s[i] = c}

Last(S) == CHOOSE i \in S : \A j \in S : j <= i

\* s without its trailing whitespace.
WithoutTrailingSpace(s) ==
    SubSeq(s, 1, Last({0} \cup {j \in 1..Len(s) : ~IsSpace(s[j])}))

\* The title the claim gives for the tail t.
ClaimedTitle(t) ==
    IF /\ Positions(t, "(") # {} /\ Positions(t, ")") # {}
       /\ Last(Positions(t, ")")) > Last(Positions(t, "("))
    THEN WithoutTrailingSpace(SubSeq(t, 1, Last(Positions(t, "(")) - 1))
    ELSE t

ExpectedIID(line) ==
    CASE line = <<"!", "4", "2", " ", "g", "r", "o", "u", "p", "/", "r", "e", "p", "o", " ", "F", "i", "x", " ", "l", "o", "g", "i", "n", " ", "b", "u", "g", " ", "(", "f", "i", "x", "-", "l", "o", "g", "i", "n", " ", "←", " ", "m", "a", "i", "n", ")">> -> 42
      [] line = <<"!", "7", " ", "g", "r", "o", "u", "p", "/", "r", "e", "p", "o", " ", "R", "e", "f", "a", "c", "t", "o", "r", " ", "p", "a", "r", "s", "e", "r">> -> 7
      [] line = <<" ", " ", "!", "1", "3", "\t", "g", "r", "o", "u", "p", "/", "r", "e", "p", "o", " ", " ", "F", "i", "x", " ", "(", "a", ")", " ", "b", "u", "g", " ", "(", "b", ")", " ", " ">> -> 13
      [] line = <<"!", "9", " ", "g", "/", "r", " ", "F", "i", "x", " ", "(", "b", ")", " ", "e", "x", "t", "r", "a", " ", "w", "o", "r", "d", "s">> -> 9
      [] line = <<"!", "8", " ", "g", "/", "r", " ", "W", "e", "i", "r", "d", " ", ")", " ", "p", "a", "r", "e", "n", " ", "(", " ", "o", "r", "d", "e", "r">> -> 8
      [] line = <<"!", "+", "3", " ", "g", "/", "r", " ", "(", "o", "n", "l", "y", " ", "b", "r", "a", "n", "c", "h", ")">> -> 3
      [] line = <<"!", "-", "4", " ", "g", "/", "r", " ", "o", "p", "e", "n", " ", "(", " ", "o", "n", "l", "y">> -> -4

\* C9: the Reviews returned correspond one to one and in order to the
\* accepted lines of the output: the i-th Review carries the number of the
\* i-th accepted line, no other line gives a Review, and a second call on
\* the same output returns the same sequence.
C9_OrderedOneToOne ==
    /\ Len(pOrigin) = Len(pReviews)
    /\ \A i \in DOMAIN pOrigin : \A j \in DOMAIN pOrigin : i < j => pOrigin[i] < pOrigin[j]
    /\ {pOrigin[i] : i \in DOMAIN pOrigin} = {k \in Processed : Accepted(pLines[k])}
    /\ \A i \in DOMAIN pReviews : pReviews[i].Number = ExpectedIID(pLines[pOrigin[i]])
    /\ (ppc = "returned" /\ pPass = 2) => pReviews = pFirst

\* Two merge requests returned in the order listed, by both calls.
C9_Witness ==
    /\ ppc = "returned" /\ pPass = 2 /\ pOrigin = <<1, 2>>
    /\ pReviews[1].Number = 7 /\ pReviews[2].Number = 42
    /\ pFirst = pReviews

====
